---- MODULE Spec2Model ----
(***************************************************************************)
(* Model of src/app.py: the two JSON endpoints /encode-student and         *)
(* /process-attendance, the helper process_student_image_from_base64, and  *)
(* the two attendance matchers process_class_image_from_base64 (routed)    *)
(* and process_class_image (URL variant, callable but not routed).         *)
(*                                                                         *)
(* One request (or one direct call of process_class_image) is in progress  *)
(* at a time; pc is the position inside the handler.  The matching loop is *)
(* modelled one (face, student) comparison per step.                       *)
(*                                                                         *)
(* Embeddings are vectors of integers counted in tenths, so the tolerance  *)
(* 0.6 is 6 and "distance <= 0.6" is "squared distance <= 6*6" in exact    *)
(* arithmetic.  face_recognition.compare_faces(known, face, tolerance) is  *)
(* list(face_distance(known, face) <= tolerance), face_distance being the  *)
(* Euclidean norm of the difference.                                       *)
(***************************************************************************)
EXTENDS Integers, Sequences, FiniteSets, TLC

VARIABLES
    pc,              \* position: idle, handler entry, decode, init, compare, ...
    endpoint,        \* "none" | "encode" | "attendance" | "url"
    request,         \* the JSON body (or the arguments of the direct call)
    class_encodings, \* faces detected in the class photo
    results,         \* the results list under construction / returned
    face_idx,        \* outer loop index (1-based), 0 outside the loop
    i,               \* inner loop index (1-based), 0 outside the loop
    raised,          \* message of the exception propagating, "" if none
    encodings,       \* return value of process_student_image_from_base64
    decode_calls,    \* image decodings started for this request
    compared,        \* (face index, student index) pairs given to compare_faces
    response         \* the HTTP response

vars == <<pc, endpoint, request, class_encodings, results, face_idx, i,
          raised, encodings, decode_calls, compared, response>>

-----------------------------------------------------------------------------
(* Bounds of the model *)

MaxStudents == 2
MaxFaces == 2

(* tolerance=0.6 of the compare_faces calls, in tenths *)
ToleranceTenths == 6

SeqsUpTo(S, n) == UNION {[1..k -> S] : k \in 0..n}

-----------------------------------------------------------------------------
(* Inputs *)

\* Embeddings the detector may produce for the class photo (tenths).
FaceEmbeddings == {<<0, 0>>, <<6, 0>>, <<7, 0>>}

\* Embeddings stored on roster entries (tenths).
StoredEmbeddings == {<<0, 0>>, <<6, 6>>}

NoKey == "<no key>"

\* The 'encodings' field of a student: key missing, null, [], a vector, or
\* a truthy value that is no usable embedding (compare_faces raises on it).
EncodingsFields ==
    {[kind |-> k, vec |-> <<>>] : k \in {"missing", "null", "empty", "bad"}}
    \cup {[kind |-> "vec", vec |-> v] : v \in StoredEmbeddings}

\* A student dict; id = NoKey stands for a dict without the 'id' key.
People == {[id |-> "s1", name |-> "Ann"], [id |-> "s2", name |-> "Bob"]}

Students ==
    {[id |-> p.id, name |-> p.name, encodings |-> e] :
        p \in People, e \in EncodingsFields}
    \cup {[id |-> NoKey, name |-> "Ann",
           encodings |-> [kind |-> "vec", vec |-> <<0, 0>>]]}

Rosters == SeqsUpTo(Students, MaxStudents)

\* The 'students' field: key missing, null, or a list.
StudentsFields ==
    {[kind |-> k, list |-> <<>>] : k \in {"absent", "null"}}
    \cup {[kind |-> "list", list |-> r] : r \in Rosters}

FaceLists == SeqsUpTo(FaceEmbeddings, MaxFaces)

\* An image string: whether it starts with 'data:image', whether it holds a
\* comma, whether what is decoded is valid base64, whether the bytes are an
\* image, and the faces the detector finds in that image.
Payload(prefix, comma, b64, img, faces) ==
    [present |-> "value", prefix |-> prefix, comma |-> comma,
     b64 |-> b64, img |-> img, faces |-> faces]

ImageFields ==
    {[present |-> k, prefix |-> FALSE, comma |-> FALSE, b64 |-> FALSE,
      img |-> FALSE, faces |-> <<>>] : k \in {"absent", "empty"}}
    \cup {Payload(TRUE, FALSE, TRUE, TRUE, <<>>),
          Payload(FALSE, FALSE, FALSE, FALSE, <<>>),
          Payload(FALSE, FALSE, TRUE, FALSE, <<>>)}
    \cup {Payload(p, p, TRUE, TRUE, f) : p \in BOOLEAN, f \in FaceLists}

\* A URL given to process_class_image: the fetch and the image codec may
\* fail (b64 = FALSE stands for a failed fetch, img = FALSE for bytes that
\* are no image).
UrlFields ==
    {Payload(FALSE, FALSE, FALSE, FALSE, <<>>),
     Payload(FALSE, FALSE, TRUE, FALSE, <<>>)}
    \cup {Payload(FALSE, FALSE, TRUE, TRUE, f) : f \in FaceLists}

NoImage ==
    [present |-> "absent", prefix |-> FALSE, comma |-> FALSE, b64 |-> FALSE,
     img |-> FALSE, faces |-> <<>>]

NoStudents == [kind |-> "absent", list |-> <<>>]

NoRequest == [json |-> "none", image |-> NoImage, students |-> NoStudents]

-----------------------------------------------------------------------------
(* Responses *)

Resp(status, keys, success, error, res, enc) ==
    [status |-> status, keys |-> keys, success |-> success, error |-> error,
     results |-> res, encodings |-> enc]

NoResponse == Resp(0, {}, FALSE, "", <<>>, <<>>)

NoFaceMsg == "No face detected in image"

\* except Exception as e: jsonify({'success': False, 'error': str(e)}), 500
ErrorEnvelope(msg) == Resp(500, {"success", "error"}, FALSE, msg, <<>>, <<>>)

-----------------------------------------------------------------------------
(* Pure helpers of the handlers *)

\* Lines 148-154: strip the data URL prefix, base64-decode, open the image.
\* The message of the exception raised, "" when the image decodes.
DecodeError(image) ==
    IF image.prefix /\ ~image.comma THEN "list index out of range"
    ELSE IF ~image.b64 THEN "Incorrect padding"
    ELSE IF ~image.img THEN "cannot identify image file"
    ELSE ""

\* load_image_from_url: requests.get, Image.open.
LoadError(url) ==
    IF ~url.b64 THEN "connection failed"
    ELSE IF ~url.img THEN "cannot identify image file"
    ELSE ""

\* `not x` of Python for the image string: None and '' are falsy.
ImageMissing(image) == image.present # "value"

\* student.get('encodings') is truthy.
HasEncodingsNullCompared(student) == student.encodings.kind # "missing"

HasEncodings(student) ==
    student.encodings.kind \notin {"missing", "null", "empty"}

RECURSIVE SumSq(_, _, _)
SumSq(a, b, k) ==
    IF k = 0 THEN 0
    ELSE (a[k] - b[k]) * (a[k] - b[k]) + SumSq(a, b, k - 1)

\* Squared Euclidean distance (face_distance, squared).
SqDist(a, b) == SumSq(a, b, Len(a))

CompareFacesStrict(known, face) ==
    SqDist(known, face) < ToleranceTenths * ToleranceTenths

\* compare_faces([known], face, tolerance=0.6)[0]
CompareFaces(known, face) ==
    SqDist(known, face) <= ToleranceTenths * ToleranceTenths

InitialResultPresent(student) ==
    [id |-> student.id, name |-> student.name, isAbsent |-> FALSE]

\* results.append({'id': ..., 'name': ..., 'isAbsent': True})
InitialResult(student) ==
    [id |-> student.id, name |-> student.name, isAbsent |-> TRUE]

InitialResultsReversed(students) ==
    [k \in 1..Len(students) |->
        InitialResult(students[Len(students) + 1 - k])]

\* for student in students_data: results.append(...)
InitialResults(students) ==
    [k \in 1..Len(students) |-> InitialResult(students[k])]

\* Index of the first student dict without the 'id' key, 0 if none.
FirstNoKey(students) ==
    IF \E k \in 1..Len(students) : students[k].id = NoKey
    THEN CHOOSE k \in 1..Len(students) :
            /\ students[k].id = NoKey
            /\ \A j \in 1..(k - 1) : students[j].id # NoKey
    ELSE 0

MarkToggle(res, k) == [res EXCEPT ![k].isAbsent = ~res[k].isAbsent]

\* results[i]['isAbsent'] = False
MarkPresent(res, k) == [res EXCEPT ![k].isAbsent = FALSE]

NextPairFirstFaceOnly(f, s, nf, ns) ==
    IF s < ns THEN <<f, s + 1>> ELSE <<0, 0>>

\* The nested for loops: the pair after (f, s), <<0, 0>> when both are done.
NextPair(f, s, nf, ns) ==
    IF s < ns THEN <<f, s + 1>>
    ELSE IF f < nf THEN <<f + 1, 1>>
    ELSE <<0, 0>>

AttendanceResponsePartial(msg, res) ==
    IF msg # ""
    THEN Resp(500, {"success", "error", "results"}, FALSE, msg, res, <<>>)
    ELSE Resp(200, {"success", "results"}, TRUE, "", res, <<>>)

\* Lines 300-312: the 200 envelope with the results, or the 500 envelope.
AttendanceResponse(msg, res) ==
    IF msg # "" THEN ErrorEnvelope(msg)
    ELSE Resp(200, {"success", "results"}, TRUE, "", res, <<>>)

-----------------------------------------------------------------------------
(* State *)

roster == request.students.list

Init ==
    /\ pc = "idle"
    /\ endpoint = "none"
    /\ request = NoRequest
    /\ class_encodings = <<>>
    /\ results = <<>>
    /\ face_idx = 0
    /\ i = 0
    /\ raised = ""
    /\ encodings = <<>>
    /\ decode_calls = 0
    /\ compared = {}
    /\ response = NoResponse

-----------------------------------------------------------------------------
(* POST /encode-student *)

ReceiveEncodeStudent ==
    /\ pc = "idle"
    /\ \E json \in {"null", "object"}, image \in ImageFields :
        /\ json = "null" => image = NoImage
        /\ request' = [json |-> json, image |-> image, students |-> NoStudents]
    /\ endpoint' = "encode"
    /\ pc' = "encode_student"
    /\ UNCHANGED <<class_encodings, results, face_idx, i, raised, encodings,
                   decode_calls, compared, response>>

\* Lines 227-232 and the except of 247-251.
EncodeStudent ==
    /\ pc = "encode_student"
    /\ IF request.json = "null"
       THEN /\ response' =
                ErrorEnvelope("'NoneType' object has no attribute 'get'")
            /\ pc' = "responded"
       ELSE IF ImageMissing(request.image)
       THEN /\ response' =
                Resp(400, {"error"}, FALSE, "Missing imageData", <<>>, <<>>)
            /\ pc' = "responded"
       ELSE /\ pc' = "student_image"
            /\ UNCHANGED response
    /\ UNCHANGED <<endpoint, request, class_encodings, results, face_idx, i,
                   raised, encodings, decode_calls, compared>>

\* Lines 59-79: every exception is swallowed and None (<<>>) is returned.
ProcessStudentImageFromBase64 ==
    /\ pc = "student_image"
    /\ decode_calls' = decode_calls + 1
    /\ encodings' =
         IF DecodeError(request.image) # "" THEN <<>>
         ELSE IF Len(request.image.faces) = 0 THEN <<>>
         ELSE request.image.faces[1]
    /\ pc' = "encode_return"
    /\ UNCHANGED <<endpoint, request, class_encodings, results, face_idx, i,
                   raised, compared, response>>

\* Lines 236-245.
EncodeStudentRespond ==
    /\ pc = "encode_return"
    /\ response' =
         IF encodings = <<>>
         THEN Resp(400, {"success", "error"}, FALSE, NoFaceMsg, <<>>, <<>>)
         ELSE Resp(200, {"success", "encodings"}, TRUE, "", <<>>, encodings)
    /\ pc' = "responded"
    /\ UNCHANGED <<endpoint, request, class_encodings, results, face_idx, i,
                   raised, encodings, decode_calls, compared>>

-----------------------------------------------------------------------------
(* POST /process-attendance *)

ReceiveProcessAttendance ==
    /\ pc = "idle"
    /\ \E json \in {"null", "object"}, image \in ImageFields,
          students \in StudentsFields :
        /\ json = "null" => (image = NoImage /\ students = NoStudents)
        /\ request' = [json |-> json, image |-> image, students |-> students]
    /\ endpoint' = "attendance"
    /\ pc' = "process_attendance"
    /\ UNCHANGED <<class_encodings, results, face_idx, i, raised, encodings,
                   decode_calls, compared, response>>

\* Lines 284-297 and the except of 307-312.  data.get on None raises, and
\* so does len(students) of line 291 when 'students' is null.
ProcessAttendance ==
    /\ pc = "process_attendance"
    /\ IF request.json = "null"
       THEN /\ response' =
                ErrorEnvelope("'NoneType' object has no attribute 'get'")
            /\ pc' = "responded"
       ELSE IF request.students.kind = "null"
       THEN /\ response' =
                ErrorEnvelope("object of type 'NoneType' has no len()")
            /\ pc' = "responded"
       ELSE IF ImageMissing(request.image)
       THEN /\ response' = Resp(400, {"error", "success"}, FALSE,
                                "Missing classImageData", <<>>, <<>>)
            /\ pc' = "responded"
       ELSE IF Len(roster) = 0
       THEN /\ response' = Resp(400, {"error", "success"}, FALSE,
                                "Missing students data", <<>>, <<>>)
            /\ pc' = "responded"
       ELSE /\ pc' = "decode"
            /\ UNCHANGED response
    /\ UNCHANGED <<endpoint, request, class_encodings, results, face_idx, i,
                   raised, encodings, decode_calls, compared>>

\* process_class_image_from_base64, lines 146-157.
DecodeClassImage ==
    /\ pc = "decode"
    /\ decode_calls' = decode_calls + 1
    /\ IF DecodeError(request.image) # ""
       THEN /\ raised' = DecodeError(request.image)
            /\ pc' = "raised"
            /\ UNCHANGED class_encodings
       ELSE /\ class_encodings' = request.image.faces
            /\ pc' = "init"
            /\ UNCHANGED raised
    /\ UNCHANGED <<endpoint, request, results, face_idx, i, encodings,
                   compared, response>>

\* Lines 300-312.
ProcessAttendanceRespond ==
    /\ endpoint = "attendance"
    /\ pc \in {"returned", "raised"}
    /\ response' = AttendanceResponse(raised, results)
    /\ pc' = "responded"
    /\ UNCHANGED <<endpoint, request, class_encodings, results, face_idx, i,
                   raised, encodings, decode_calls, compared>>

-----------------------------------------------------------------------------
(* process_class_image(class_image_url, students_data), called directly *)

CallProcessClassImage ==
    /\ pc = "idle"
    /\ \E url \in UrlFields, students \in Rosters :
        request' = [json |-> "object", image |-> url,
                    students |-> [kind |-> "list", list |-> students]]
    /\ endpoint' = "url"
    /\ pc' = "load_url"
    /\ UNCHANGED <<class_encodings, results, face_idx, i, raised, encodings,
                   decode_calls, compared, response>>

\* Lines 94-95.
LoadClassImage ==
    /\ pc = "load_url"
    /\ decode_calls' = decode_calls + 1
    /\ IF LoadError(request.image) # ""
       THEN /\ raised' = LoadError(request.image)
            /\ pc' = "raised"
            /\ UNCHANGED class_encodings
       ELSE /\ class_encodings' = request.image.faces
            /\ pc' = "init"
            /\ UNCHANGED raised
    /\ UNCHANGED <<endpoint, request, results, face_idx, i, encodings,
                   compared, response>>

-----------------------------------------------------------------------------
(* The matcher shared by both variants (lines 97-129 and 159-198) *)

\* Lines 159-173: one result per student, then the early return.
InitResults ==
    /\ pc = "init"
    /\ IF FirstNoKey(roster) # 0
       THEN /\ results' =
                InitialResults(SubSeq(roster, 1, FirstNoKey(roster) - 1))
            /\ raised' = "'id'"
            /\ pc' = "raised"
            /\ UNCHANGED <<face_idx, i>>
       ELSE /\ results' = InitialResults(roster)
            /\ UNCHANGED raised
            /\ IF Len(class_encodings) = 0 \/ Len(roster) = 0
               THEN /\ pc' = "returned"
                    /\ UNCHANGED <<face_idx, i>>
               ELSE /\ pc' = "compare"
                    /\ face_idx' = 1
                    /\ i' = 1
    /\ UNCHANGED <<endpoint, request, class_encodings, encodings,
                   decode_calls, compared, response>>

Advance ==
    LET nxt == NextPair(face_idx, i, Len(class_encodings), Len(roster))
    IN  /\ face_idx' = nxt[1]
        /\ i' = nxt[2]
        /\ pc' = IF nxt = <<0, 0>> THEN "returned" ELSE "compare"

\* Lines 179-181: no encoding available, continue.
LoopSkip ==
    /\ pc = "compare"
    /\ ~HasEncodings(roster[i])
    /\ Advance
    /\ UNCHANGED <<endpoint, request, class_encodings, results, raised,
                   encodings, decode_calls, compared, response>>

\* Lines 184-195: compare, and mark the student present on a match.
LoopCompare ==
    /\ pc = "compare"
    /\ HasEncodings(roster[i])
    /\ roster[i].encodings.kind = "vec"
    /\ compared' = compared \cup {<<face_idx, i>>}
    /\ results' =
         IF CompareFaces(roster[i].encodings.vec, class_encodings[face_idx])
         THEN MarkPresent(results, i)
         ELSE results
    /\ Advance
    /\ UNCHANGED <<endpoint, request, class_encodings, raised, encodings,
                   decode_calls, response>>

\* Lines 184-191 and 200-204: the conversion or the comparison raises.
LoopRaise ==
    /\ pc = "compare"
    /\ HasEncodings(roster[i])
    /\ roster[i].encodings.kind # "vec"
    /\ compared' = compared \cup {<<face_idx, i>>}
    /\ raised' = "operands could not be broadcast together"
    /\ pc' = "raised"
    /\ UNCHANGED <<endpoint, request, class_encodings, results, face_idx, i,
                   encodings, decode_calls, response>>

-----------------------------------------------------------------------------

\* The request is over; the server takes the next one.
NextRequest ==
    /\ \/ pc = "responded"
       \/ endpoint = "url" /\ pc \in {"returned", "raised"}
    /\ pc' = "idle"
    /\ endpoint' = "none"
    /\ request' = NoRequest
    /\ class_encodings' = <<>>
    /\ results' = <<>>
    /\ face_idx' = 0
    /\ i' = 0
    /\ raised' = ""
    /\ encodings' = <<>>
    /\ decode_calls' = 0
    /\ compared' = {}
    /\ response' = NoResponse

Next ==
    \/ ReceiveEncodeStudent
    \/ EncodeStudent
    \/ ProcessStudentImageFromBase64
    \/ EncodeStudentRespond
    \/ ReceiveProcessAttendance
    \/ ProcessAttendance
    \/ DecodeClassImage
    \/ ProcessAttendanceRespond
    \/ CallProcessClassImage
    \/ LoadClassImage
    \/ InitResults
    \/ LoopSkip
    \/ LoopCompare
    \/ LoopRaise
    \/ NextRequest

Spec == Init /\ [][Next]_vars

-----------------------------------------------------------------------------
(* Properties *)

\* The matcher returned normally to its caller.
Succeeded ==
    \/ endpoint = "attendance" /\ pc = "responded" /\ response.status = 200
    \/ endpoint = "url" /\ pc = "returned"

\* The list handed back: the body's results, or the function's return value.
Returned == IF endpoint = "attendance" THEN response.results ELSE results

NoStoredEncoding(student) ==
    student.encodings.kind \in {"missing", "null", "empty"}

Within(known, face) == SqDist(known, face) <= ToleranceTenths * ToleranceTenths

\* C1: every successful attendance run returns exactly one result per input
\* student, in input order, with the student's id and name.
C1_OneResultPerStudent ==
    Succeeded =>
        /\ Len(Returned) = Len(roster)
        /\ \A k \in 1..Len(roster) :
            /\ Returned[k].id = roster[k].id
            /\ Returned[k].name = roster[k].name

C1_Witness ==
    /\ Succeeded
    /\ endpoint = "attendance"
    /\ Len(roster) = 2
    /\ roster[1].id # roster[2].id
    /\ Len(Returned) = 2
    /\ ~Returned[1].isAbsent
    /\ Returned[2].isAbsent

\* C2: for every roster entry holding a stored embedding, the final verdict
\* is "present" exactly when some detected face lies within the tolerance of
\* that embedding (an OR over the faces, independent of the other entries).
C2_PresentIffSomeFaceWithin ==
    Succeeded =>
        \A k \in 1..Len(roster) :
            roster[k].encodings.kind = "vec" =>
                /\ k <= Len(Returned)
                /\ (~Returned[k].isAbsent) <=>
                     \E f \in 1..Len(class_encodings) :
                        Within(roster[k].encodings.vec, class_encodings[f])

\* One face marks two students present, and a second face matches nobody.
C2_Witness ==
    /\ Succeeded
    /\ Len(roster) = 2
    /\ Len(class_encodings) = 2
    /\ roster[1].encodings.kind = "vec"
    /\ roster[2].encodings.kind = "vec"
    /\ roster[1].encodings.vec # roster[2].encodings.vec
    /\ Within(roster[1].encodings.vec, class_encodings[2])
    /\ Within(roster[2].encodings.vec, class_encodings[2])
    /\ ~Within(roster[1].encodings.vec, class_encodings[1])
    /\ ~Within(roster[2].encodings.vec, class_encodings[1])
    /\ ~Returned[1].isAbsent
    /\ ~Returned[2].isAbsent

\* C3: with no detected face the matcher returns one result per roster entry,
\* all absent, and no comparison was made.
C3_NoFaceAllAbsent ==
    (Succeeded /\ Len(class_encodings) = 0) =>
        /\ Len(Returned) = Len(roster)
        /\ \A k \in 1..Len(Returned) : Returned[k].isAbsent
        /\ compared = {}

C3_Witness ==
    /\ Succeeded
    /\ decode_calls = 1
    /\ Len(class_encodings) = 0
    /\ Len(roster) = 2
    /\ roster[1].encodings.kind = "vec"
    /\ Len(Returned) = 2
    /\ Returned[1].isAbsent

\* C4: a roster entry whose encodings are missing, null or empty is never
\* given to compare_faces and is absent in the results at every moment.
C4_NoEncodingNeverPresent ==
    \A k \in 1..Len(roster) :
        NoStoredEncoding(roster[k]) =>
            /\ \A f \in 1..Len(class_encodings) : <<f, k>> \notin compared
            /\ k <= Len(results) => results[k].isAbsent
            /\ k <= Len(response.results) => response.results[k].isAbsent

\* The entry without encodings stays absent although a face matches the
\* other entry, whose embedding is the one the detector found.
C4_Witness ==
    /\ Succeeded
    /\ Len(roster) = 2
    /\ roster[1].encodings.kind = "null"
    /\ roster[2].encodings.kind = "vec"
    /\ Len(class_encodings) >= 1
    /\ ~Returned[2].isAbsent
    /\ Returned[1].isAbsent

C5_Step ==
    (pc = "compare" /\ roster[i].encodings.kind = "vec") =>
        LET d == SqDist(roster[i].encodings.vec, class_encodings[face_idx])
            t == ToleranceTenths * ToleranceTenths
        IN  /\ d = t => ~results'[i].isAbsent
            /\ d > t => results' = results

\* C5: a comparison at distance exactly 0.6 marks the student present; a
\* comparison at a distance above 0.6 leaves the results as they were.
C5_InclusiveThreshold == [][C5_Step]_vars

\* Present although every detected face is at distance 0.6 or more.
C5_Witness ==
    /\ Succeeded
    /\ Len(roster) >= 1
    /\ roster[1].encodings.kind = "vec"
    /\ Len(class_encodings) = 2
    /\ SqDist(roster[1].encodings.vec, class_encodings[1])
         > ToleranceTenths * ToleranceTenths
    /\ SqDist(roster[1].encodings.vec, class_encodings[2])
         = ToleranceTenths * ToleranceTenths
    /\ ~Returned[1].isAbsent

\* C6: when the matcher raised, the /process-attendance response is the 500
\* envelope {success: false, error: message} and holds no results.
C6_ErrorAbortsWholeRequest ==
    (endpoint = "attendance" /\ pc = "responded" /\ raised # "") =>
        /\ response.status = 500
        /\ response.keys = {"success", "error"}
        /\ response.success = FALSE
        /\ response.error = raised
        /\ response.results = <<>>

\* The comparison raised after a student had been marked present.
C6_Witness ==
    /\ endpoint = "attendance"
    /\ pc = "responded"
    /\ raised # ""
    /\ compared # {}
    /\ \E k \in 1..Len(results) : ~results[k].isAbsent

\* C7: every 400 or 500 response carries success = false.
C7_ErrorsCarrySuccessFalse ==
    (pc = "responded" /\ response.status \in {400, 500}) =>
        /\ "success" \in response.keys
        /\ response.success = FALSE

\* C8: a payload that fails to decode is answered with an error other than
\* 'No face detected in image', which is kept for decoded images without a
\* face.
C8_DecodeFailureDistinguishable ==
    (pc = "responded" /\ endpoint \in {"encode", "attendance"}
        /\ decode_calls = 1) =>
        /\ DecodeError(request.image) # "" =>
            /\ response.status \in {400, 500}
            /\ response.error \notin {"", NoFaceMsg}
        /\ response.error = NoFaceMsg =>
            /\ DecodeError(request.image) = ""
            /\ Len(request.image.faces) = 0

\* The request lacks a required field.
MissingField ==
    \/ /\ endpoint = "encode"
       /\ request.json = "null" \/ ImageMissing(request.image)
    \/ /\ endpoint = "attendance"
       /\ request.json = "object"
       /\ \/ ImageMissing(request.image)
          \/ request.students.kind # "list"
          \/ Len(roster) = 0

\* C9: a request lacking a required field is answered 400 'Missing ...'
\* without any image decoding, classImageData being checked first.
C9_MissingFieldIs400 ==
    (pc = "responded" /\ MissingField) =>
        /\ response.status = 400
        /\ response.error \in {"Missing imageData", "Missing classImageData",
                               "Missing students data"}
        /\ decode_calls = 0
        /\ (endpoint = "attendance" /\ ImageMissing(request.image)) =>
              response.error = "Missing classImageData"

C10_Step ==
    /\ (pc = "init" /\ pc' \in {"compare", "returned"}) =>
          \A k \in 1..Len(results') : results'[k].isAbsent
    /\ pc = "compare" =>
          /\ Len(results') = Len(results)
          /\ \A k \in 1..Len(results) :
                /\ results'[k].id = results[k].id
                /\ results'[k].name = results[k].name
                /\ ~results[k].isAbsent => ~results'[k].isAbsent

\* C10: the results start all absent; during the loop a flag that is false
\* stays false, and ids and names never change.
C10_PresenceMonotone == [][C10_Step]_vars

\* A student already marked present is about to match a later face again.
C10_Witness ==
    /\ pc = "compare"
    /\ face_idx = 2
    /\ ~results[i].isAbsent
    /\ roster[i].encodings.kind = "vec"
    /\ CompareFaces(roster[i].encodings.vec, class_encodings[face_idx])

====
